---- MODULE Spec2Model ----
(***************************************************************************)
(* TreeSense: the single-image inference pipeline (lib/tfmodel:            *)
(* loadModel, predictImage), the results page's display sort, and the      *)
(* prediction service's start-up and liveness probe.                       *)
(*                                                                         *)
(* Probabilities are fixed-point hundredths (70 stands for 0.70): the      *)
(* code only compares and subtracts them, and the sign of a difference of  *)
(* two finite floats is exact.                                             *)
(***************************************************************************)
EXTENDS Integers, Sequences, FiniteSets, TLC

\* ------------------------------------------------------------------ bounds
MaxLen == 4        \* longest probability vector drawn for the ranking
MaxLabels == 4     \* largest class mapping drawn for the ranking
MaxCalls == 3      \* concurrent predictImage calls
MaxSelections == 2 \* image selections on the upload page
MaxRequests == 3   \* POST /predict requests of other clients

\* Confidence values the model output is drawn from (hundredths).
ProbValues == {0, 10, 20, 70}
\* Class names of the mapping file, by index.
LabelNames == <<"A", "B", "C", "D", "E", "F">>

VARIABLES
    rkProbs,            \* probs[0] of one forward pass (tfmodel 291-292)
    rkMapping,          \* the classMapping the ranking reads: <<>> null, <<m>> loaded
    rkPc,               \* "ready" | "returned" | "threw" | "shown" | "renderThrew"
    rkResult,           \* what predictImage returned or threw
    rkShown,            \* allProbabilities as the results page lists it
    model,              \* tfmodel `model`: 0 is null, n > 0 the handle call n loaded
    classMapping,       \* tfmodel `classMapping`: <<>> null, <<m>> loaded
    backendInitialized, \* tfmodel `backendInitialized`
    pc,                 \* per call: position in predictImage and the loadModel it awaits
    image,              \* per call: the image element passed to predictImage
    network,            \* per handle: the network its load read from model.json
    usedModel,          \* per call: the handle model.predict ran on, 0 before it
    predictions,        \* per call: output of model.predict, <<>> before it
    outcome,            \* per call: what the call resolved or rejected with
    mappingLoads,       \* times class_mapping.json was fetched and assigned
    modelLoads,         \* times model.json was loaded and assigned
    loaded,             \* some loadModel call has resolved
    srvInit,            \* service initialize(): "pending" | "ok" | "failed"
    srvBound,           \* the service has bound its port
    healthAnswer,       \* last answer the service gave to GET /health, <<>> if none
    page,               \* route rendered: "/" | "/results"
    upPc,               \* per selection: position in handleImageSelect
    upFile,             \* per selection: the file selected
    detached,           \* per selection: the Upload that accepted it has unmounted
    imageLoaded,        \* per selection: img.onload has fired in Upload
    healthOutcome,      \* per selection: how the GET /health fetch ended
    apiAvailable,       \* per selection: what checkApiHealth resolved to
    posts,              \* per selection: POST /predict requests sent
    predictOutcome,     \* per selection: how the POST /predict fetch ended
    apiError,           \* per selection: message predictImage rejected with
    selectedImage,      \* Upload: selectedImage
    isProcessing,       \* Upload: isProcessing, as last set
    disabled,           \* Upload: isProcessing as last rendered, which the closure of
                        \* handleImageSelect and UploadZone's `disabled` hold
    progress,           \* Upload: progress
    storage,            \* sessionStorage: per key, the selection that wrote it
    resultsShown,       \* Results: a prediction is rendered
    shownFor,           \* Results: the selection whose prediction it renders, 0 if none
    selections,         \* image selections accepted so far
    ignored,            \* 1 once a selection was dropped because one was being processed
    lastNav,            \* what last set the location: "none" | "upload" | "open" |
                        \* "redirect" | "back" | "newUpload"
    location,           \* the router's location: "/" | "/results"
    resultsPc,          \* Results: "unmounted" | "mounted" (effect due) | "ran"
    prediction,         \* Results: the selection whose entries its state holds, 0 null
    predictLog,         \* the service's answers to POST /predict, in order
    apiCall,            \* API client call under test: "health" | "predict" | "off"
    apiIn,              \* how that call's fetch ends
    apiOut              \* what the call settled with

rkVars == <<rkProbs, rkMapping, rkPc, rkResult, rkShown>>
tfVars == <<model, classMapping, backendInitialized, pc, image,
            network, usedModel, predictions, outcome, mappingLoads, modelLoads,
            loaded>>
srvVars == <<srvInit, srvBound, healthAnswer, predictLog>>
flowVars == <<upPc, upFile, detached, imageLoaded, healthOutcome, apiAvailable, posts,
              predictOutcome, apiError>>
routeVars == <<location, resultsPc, prediction>>
pageVars == <<page, selectedImage, isProcessing, disabled, progress, storage,
              resultsShown, shownFor, selections, ignored, lastNav, routeVars>>
apiVars == <<apiCall, apiIn, apiOut>>
appVars == <<srvVars, flowVars, pageVars, apiVars>>
vars == <<rkVars, tfVars, appVars>>

\* ------------------------------------------------------- JavaScript values
\* The value of a missing property.
Undefined == "undefined"
\* String(index): decimal digits.
JSString(i) == ToString(i)

RECURSIVE SeqsOfLen(_, _)
SeqsOfLen(S, n) ==
    IF n = 0 THEN {<<>>}
    ELSE {Append(s, x) : s \in SeqsOfLen(S, n - 1), x \in S}
SeqsUpTo(S, n) == UNION {SeqsOfLen(S, k) : k \in 0..n}

Min(a, b) == IF a < b THEN a ELSE b

\* class_mapping.json with n classes: {"0": "A", "1": "B", ...}.
MappingOf(n) ==
    [k \in {JSString(i) : i \in 0..(n - 1)} |->
        LabelNames[(CHOOSE i \in 0..(n - 1) : JSString(i) = k) + 1]]

\* classMapping![String(index)]
Lookup(cm, index) ==
    IF JSString(index) \in DOMAIN cm THEN cm[JSString(index)] ELSE Undefined

\* ------------------------------------------------------------ the ranking
\* The comparator with its operands swapped: ascending order.
compareFnAscending(a, b) == a.confidence - b.confidence

\* (a, b) => b.confidence - a.confidence
compareFn(a, b) == b.confidence - a.confidence

\* Array.prototype.sort is stable: an element goes behind every element the
\* comparator does not order after it.  s is a sorted sequence of positions
\* of arr, x the next position.
RECURSIVE InsertUnstable(_, _, _)
InsertUnstable(s, x, arr) ==
    IF s = <<>> THEN <<x>>
    ELSE IF compareFn(arr[Head(s)], arr[x]) < 0
         THEN <<Head(s)>> \o InsertUnstable(Tail(s), x, arr)
         ELSE <<x>> \o s

RECURSIVE Insert(_, _, _)
Insert(s, x, arr) ==
    IF s = <<>> THEN <<x>>
    ELSE IF compareFn(arr[Head(s)], arr[x]) <= 0
         THEN <<Head(s)>> \o Insert(Tail(s), x, arr)
         ELSE <<x>> \o s

RECURSIVE SortPrefix(_, _)
SortPrefix(arr, n) ==
    IF n = 0 THEN <<>> ELSE Insert(SortPrefix(arr, n - 1), n, arr)

\* The positions of arr in the order arr.sort(compareFn) leaves them.
SortOrder(arr) == SortPrefix(arr, Len(arr))
\* [...arr].sort(compareFn)
Sort(arr) == [k \in 1..Len(arr) |-> arr[SortOrder(arr)[k]]]

\* probabilities.map((prob, index) => ({className, confidence}))
allPredictions(probabilities, cm) ==
    [i \in 1..Len(probabilities) |->
        [className |-> Lookup(cm, i - 1), confidence |-> probabilities[i]]]

sorted(probabilities, cm) == Sort(allPredictions(probabilities, cm))

\* sorted.slice(0, 3)
SliceLimit == 3
top3(srt) == SubSeq(srt, 1, Min(SliceLimit, Len(srt)))

Threw(msg) == [ok |-> FALSE, error |-> msg]
Returned(v) == [ok |-> TRUE, value |-> v]

\* Lines 307-313: the object predictImage returns.
FullResult(probabilities, cm, url) ==
    LET all == allPredictions(probabilities, cm)
        srt == sorted(probabilities, cm)
    IN  Returned([className |-> srt[1].className,
                  confidence |-> srt[1].confidence,
                  top3 |-> top3(srt),
                  allProbabilities |-> all,
                  preprocessedImageUrl |-> url])

\* Lines 292-313 of predictImage on probs[0] and the classMapping read at
\* that moment (cmOpt: <<>> when it is null).  classMapping![..] on null and
\* sorted[0].className on an empty array raise a TypeError.
Rank(probabilities, cmOpt, url) ==
    IF Len(probabilities) > 0 /\ cmOpt = <<>> THEN Threw("TypeError")
    ELSE IF Len(probabilities) = 0 THEN Threw("TypeError")
    ELSE FullResult(probabilities, cmOpt[1], url)

NoResult == [ok |-> FALSE, error |-> "none"]

\* ------------------------------------------------- ranking specification
\* The state the other specifications leave the pipeline's calls in.
Calls == 1..MaxCalls

TfIdle ==
    /\ model = 0
    /\ classMapping = <<>>
    /\ backendInitialized = FALSE
    /\ pc = [c \in Calls |-> "idle"]
    /\ image = [c \in Calls |-> 0]
    /\ network = [c \in Calls |-> <<>>]
    /\ usedModel = [c \in Calls |-> 0]
    /\ predictions = [c \in Calls |-> <<>>]
    /\ outcome = [c \in Calls |-> NoResult]
    /\ mappingLoads = 0
    /\ modelLoads = 0
    /\ loaded = FALSE

Sels == 1..MaxSelections
StorageKeys == {"prediction", "imageUrl", "preprocessedImageUrl"}
\* No fetch has ended yet.
NoOutcome == [kind |-> "none", status |-> 0,
              body |-> [type |-> "none", hasError |-> FALSE, error |-> <<>>]]

\* The call's promise is still pending.
Unsettled == [settled |-> FALSE]

ApiIdle ==
    /\ apiCall = "off"
    /\ apiIn = NoOutcome
    /\ apiOut = Unsettled

UploadIdle ==
    /\ srvInit = "pending"
    /\ srvBound = FALSE
    /\ healthAnswer = <<>>
    /\ predictLog = <<>>
    /\ page = "/"
    /\ location = "/"
    /\ resultsPc = "unmounted"
    /\ prediction = 0
    /\ upPc = [s \in Sels |-> "none"]
    /\ upFile = [s \in Sels |-> "none"]
    /\ detached = [s \in Sels |-> FALSE]
    /\ imageLoaded = [s \in Sels |-> FALSE]
    /\ healthOutcome = [s \in Sels |-> NoOutcome]
    /\ apiAvailable = [s \in Sels |-> "none"]
    /\ posts = [s \in Sels |-> 0]
    /\ predictOutcome = [s \in Sels |-> NoOutcome]
    /\ apiError = [s \in Sels |-> <<>>]
    /\ selectedImage = "none"
    /\ isProcessing = FALSE
    /\ disabled = FALSE
    /\ progress = 0
    /\ storage = [k \in StorageKeys |-> 0]
    /\ resultsShown = FALSE
    /\ shownFor = 0
    /\ selections = 0
    /\ ignored = 0
    /\ lastNav = "none"

AppIdle ==
    /\ ApiIdle
    /\ UploadIdle

RkIdle ==
    /\ rkProbs = <<>>
    /\ rkMapping = <<>>
    /\ rkPc = "off"
    /\ rkResult = NoResult
    /\ rkShown = <<>>

\* One forward pass has produced probs[0]; the class mapping is loaded.  The
\* code checks neither the width of the output against the mapping nor that
\* either is non-empty, so both are drawn freely.
RankInit ==
    /\ rkProbs \in SeqsUpTo(ProbValues, MaxLen)
    /\ rkMapping \in {<<MappingOf(n)>> : n \in 0..MaxLabels}
    /\ rkPc = "ready"
    /\ rkResult = NoResult
    /\ rkShown = <<>>
    /\ TfIdle
    /\ AppIdle

\* predictImage, lines 292-313.
RankCall ==
    /\ rkPc = "ready"
    /\ rkResult' = Rank(rkProbs, rkMapping, "data:image/jpeg")
    /\ rkPc' = IF rkResult'.ok THEN "returned" ELSE "threw"
    /\ UNCHANGED <<rkProbs, rkMapping, rkShown, tfVars, appVars>>

\* formatClassName (Results.tsx 60-62) calls className.replace: a TypeError
\* for a row whose className is undefined (a key JSON.stringify drops).
RenderThrows(rows) == \E i \in 1..Len(rows) : rows[i].className = Undefined

\* Results page: the render formats the className of every row, and lists
\* prediction.allProbabilities.sort(...); when a className is undefined the
\* render throws and nothing is listed.
RankShow ==
    /\ rkPc = "returned"
    /\ IF RenderThrows(rkResult.value.allProbabilities)
       THEN /\ rkShown' = <<>>
            /\ rkPc' = "renderThrew"
       ELSE /\ rkShown' = Sort(rkResult.value.allProbabilities)
            /\ rkPc' = "shown"
    /\ UNCHANGED <<rkProbs, rkMapping, rkResult, tfVars, appVars>>

RankNext == RankCall \/ RankShow

RankSpec == RankInit /\ [][RankNext]_vars

\* ------------------------------------------------------ ranking: claims
RkDone == rkPc \in {"returned", "shown", "renderThrew"}
RkValue == rkResult.value
RkLabelCount == Cardinality(DOMAIN rkMapping[1])
\* The output is as wide as the label set, as the data model presumes.
RkMatched == Len(rkProbs) = RkLabelCount

NonIncreasing(s) ==
    \A p \in 1..Len(s) : \A q \in 1..Len(s) :
        p < q => s[p].confidence >= s[q].confidence

\* C1: in every returned result (taken where the output is as wide as the
\* label set) allProbabilities is ordered by non-increasing confidence and
\* top3 is its first min(3, n) elements.
C1_AllProbabilitiesSortedTop3Prefix ==
    (RkDone /\ RkMatched) =>
        /\ NonIncreasing(RkValue.allProbabilities)
        /\ RkValue.top3 =
              SubSeq(RkValue.allProbabilities, 1,
                     Min(3, Len(RkValue.allProbabilities)))

\* C2: in every returned result (taken where the output is as wide as the
\* label set) className and confidence are those of allProbabilities[0].
C2_ClassNameIsFirstOfAllProbabilities ==
    (RkDone /\ RkMatched) =>
        /\ RkValue.className = RkValue.allProbabilities[1].className
        /\ RkValue.confidence = RkValue.allProbabilities[1].confidence

\* C3: in every returned result allProbabilities has one entry per label of
\* the label set, entry i pairing label i with probability i.
C3_OneEntryPerLabel ==
    RkDone =>
        /\ Len(RkValue.allProbabilities) = RkLabelCount
        /\ \A i \in 0..(RkLabelCount - 1) :
              /\ JSString(i) \in DOMAIN rkMapping[1]
              /\ i + 1 \in DOMAIN RkValue.allProbabilities
              /\ RkValue.allProbabilities[i + 1] =
                    [className |-> rkMapping[1][JSString(i)],
                     confidence |-> rkProbs[i + 1]]

\* The label-set index a class name stands at.
IndexOfLabel(name) ==
    CHOOSE i \in 0..(RkLabelCount - 1) : rkMapping[1][JSString(i)] = name

TiesAscending(s) ==
    \A p \in 1..Len(s) : \A q \in 1..Len(s) :
        (/\ p < q
         /\ s[p].confidence = s[q].confidence
         /\ s[p].className # Undefined
         /\ s[q].className # Undefined)
        => IndexOfLabel(s[p].className) < IndexOfLabel(s[q].className)

\* C4: of two labels with equal probability the one with the smaller
\* label-set index comes first, in top3 and in the sorted distribution the
\* results page lists.
C4_TiesByAscendingIndex ==
    /\ RkDone => TiesAscending(RkValue.top3)
    /\ rkPc = "shown" => TiesAscending(rkShown)

\* C4 witness: B leads, A and C tie behind it, top3 and the list are out.
C4_Witness ==
    /\ rkPc = "shown"
    /\ rkProbs = <<20, 70, 20>>
    /\ RkLabelCount = 3
    /\ rkShown[2].className = "A"
    /\ RkValue.top3[3].className = "C"

\* C5: with a label set (and output) of 0, 1 or 2 entries the ranking
\* returns a result whose top3 holds all the pairs.
C5_SmallLabelSetReturns ==
    (/\ rkPc # "ready"
     /\ RkLabelCount < 3
     /\ RkMatched)
    => /\ rkResult.ok
       /\ Len(RkValue.top3) = RkLabelCount

MaxOf(s) == CHOOSE m \in {s[i] : i \in 1..Len(s)} : \A i \in 1..Len(s) : s[i] <= m

\* C6: className is the label at an index of the maximum probability,
\* confidence is that maximum, and top3 lists the min(3, n) highest pairs in
\* descending order; [A,B,C] with [0.1,0.7,0.2] gives B:0.7, C:0.2, A:0.1.
C6_TopLabelAndTop3 ==
    RkDone =>
        /\ RkValue.confidence = MaxOf(rkProbs)
        /\ \E i \in 1..Len(rkProbs) :
              /\ rkProbs[i] = MaxOf(rkProbs)
              /\ RkValue.className = Lookup(rkMapping[1], i - 1)
        /\ Len(RkValue.top3) = Min(3, Len(rkProbs))
        /\ NonIncreasing(RkValue.top3)
        /\ \E f \in [1..Len(RkValue.top3) -> 1..Len(rkProbs)] :
              /\ \A p, q \in DOMAIN f : p # q => f[p] # f[q]
              /\ \A k \in DOMAIN f :
                    RkValue.top3[k] =
                        [className |-> Lookup(rkMapping[1], f[k] - 1),
                         confidence |-> rkProbs[f[k]]]
              /\ \A j \in 1..Len(rkProbs) :
                    (\A k \in DOMAIN f : f[k] # j)
                    => \A k \in DOMAIN f : rkProbs[j] <= RkValue.top3[k].confidence
        /\ (rkProbs = <<10, 70, 20>> /\ RkLabelCount = 3)
           => /\ RkValue.className = "B"
              /\ RkValue.confidence = 70
              /\ RkValue.top3 = << [className |-> "B", confidence |-> 70],
                                   [className |-> "C", confidence |-> 20],
                                   [className |-> "A", confidence |-> 10] >>

\* C6 witness: four labels have been ranked; top3 holds the three highest
\* pairs, C, D and B, and leaves A, the lowest, out.
C6_Witness ==
    /\ rkPc = "returned"
    /\ rkProbs = <<0, 10, 70, 20>>
    /\ RkLabelCount = 4
    /\ RkValue.className = "C"
    /\ RkValue.top3 = << [className |-> "C", confidence |-> 70],
                         [className |-> "D", confidence |-> 20],
                         [className |-> "B", confidence |-> 10] >>

\* ------------------------------------------- the browser pipeline (tfmodel)
\* The artifacts under /model_tfjs. class_mapping.json names four classes.
\* model.json is a trained network, given as the output of its forward pass
\* on each image; loadModel compares neither its output width with the
\* mapping nor one load with another, so a load reads any of: the network
\* trained on the four classes, one with an output wider than the mapping,
\* one with a narrower output.
ClassMappingFile == MappingOf(4)
ModelOutput == << <<10, 70, 20, 0>>, <<70, 10, 20, 20>> >>
ModelOutputWide == << <<10, 70, 20, 0, 0>>, <<70, 10, 20, 20, 0>> >>
ModelOutputNarrow == << <<10, 70, 20>>, <<70, 10, 20>> >>
ModelFiles == {ModelOutput, ModelOutputWide, ModelOutputNarrow}
Images == 1..Len(ModelOutput)

\* model.predict(tensor) followed by predictions.array(), probs[0]: the
\* output of the network the handle was loaded with on the preprocessed
\* image.
ForwardPass(handle, img) == network[handle][img]

\* The model's input resolution (README: "160x160 input"), the side the
\* API client's canvas is drawn at, the side tfmodel resizes to, and the
\* side the results page prints.
InputSize == 160
ApiCanvasSize == 160
TfResizeSize == 224
ResultsPageSize == 224

\* canvas.toDataURL of the image resized by resizeNearestNeighbor.
PreprocessedUrl(img) == <<"data:image/jpeg", TfResizeSize, img>>

Init ==
    /\ RkIdle
    /\ TfIdle
    /\ AppIdle

\* A call has left the try block of loadModel through `throw`: the catch
\* block nulls both globals and rethrows; predictImage passes the rejection on.
Rejects(c, msg) ==
    /\ model' = 0
    /\ classMapping' = <<>>
    /\ pc' = [pc EXCEPT ![c] = "failed"]
    /\ outcome' = [outcome EXCEPT ![c] = Threw(msg)]

\* loadModel() resolves with `model` (line 224); predictImage, its only
\* caller, goes on to the yield of line 231.
Resolves(c) ==
    /\ loaded' = TRUE
    /\ pc' = [pc EXCEPT ![c] = "yield"]
    /\ UNCHANGED outcome

\* Calls are numbered in the order they are made.
NextCall(c) ==
    /\ pc[c] = "idle"
    /\ \A d \in Calls : d < c => pc[d] # "idle"

\* predictImage(imageElement): `if (!model) await loadModel()`.
CallPredictImage(c, img) ==
    /\ NextCall(c)
    /\ image' = [image EXCEPT ![c] = img]
    /\ pc' = [pc EXCEPT ![c] = IF model # 0 THEN "yield" ELSE "backend"]
    /\ UNCHANGED <<model, classMapping, backendInitialized, network, usedModel,
                   predictions, outcome, mappingLoads, modelLoads, loaded, rkVars,
                   appVars>>

\* initializeBackend(): returns at once when backendInitialized; otherwise
\* sets it after tf.setBackend / tf.ready, on the WebGL and on the CPU path.
initializeBackend(c) ==
    /\ pc[c] = "backend"
    /\ backendInitialized' = TRUE
    /\ pc' = [pc EXCEPT ![c] = "fetch"]
    /\ UNCHANGED <<model, classMapping, image, network, usedModel, predictions, outcome,
                   mappingLoads, modelLoads, loaded, rkVars, appVars>>

\* Lines 148-152: the class mapping arrives and is assigned.
FetchMappingOk(c) ==
    /\ pc[c] = "fetch"
    /\ classMapping' = <<ClassMappingFile>>
    /\ mappingLoads' = mappingLoads + 1
    /\ pc' = [pc EXCEPT ![c] = "loading"]
    /\ UNCHANGED <<model, backendInitialized, image, network, usedModel, predictions,
                   outcome, modelLoads, loaded, rkVars, appVars>>

\* Lines 148-151, 213-221: the fetch rejects, answers non-ok or is not JSON.
FetchMappingFails(c) ==
    /\ pc[c] = "fetch"
    /\ Rejects(c, "Class mapping not found")
    /\ UNCHANGED <<backendInitialized, image, network, usedModel, predictions,
                   mappingLoads, modelLoads, loaded, rkVars, appVars>>

\* Lines 160-186: the race is won by loadLayersModel; `model` is assigned
\* the handle this call created, holding the network model.json gave.
LoadLayersModelOk(c) ==
    /\ pc[c] = "loading"
    /\ model' = c
    /\ \E file \in ModelFiles : network' = [network EXCEPT ![c] = file]
    /\ modelLoads' = modelLoads + 1
    /\ pc' = [pc EXCEPT ![c] = "settle"]
    /\ UNCHANGED <<classMapping, backendInitialized, image, usedModel, predictions,
                   outcome, mappingLoads, loaded, rkVars, appVars>>

\* Lines 165-186, 213-221: loadLayersModel rejects or the 2-minute timeout
\* wins the race.
LoadLayersModelFails(c) ==
    /\ pc[c] = "loading"
    /\ Rejects(c, "Model loading failed")
    /\ UNCHANGED <<backendInitialized, image, network, usedModel, predictions,
                   mappingLoads, modelLoads, loaded, rkVars, appVars>>

\* Lines 197-224: after the three yields, `if (!model) throw`, else return.
SettleLoad(c) ==
    /\ pc[c] = "settle"
    /\ IF model = 0
       THEN /\ Rejects(c, "Model loaded but is null")
            /\ UNCHANGED loaded
       ELSE /\ Resolves(c)
            /\ UNCHANGED <<model, classMapping>>
    /\ UNCHANGED <<backendInitialized, image, network, usedModel, predictions,
                   mappingLoads, modelLoads, rkVars, appVars>>

\* Lines 231-291: the yields and the preprocessing touch no shared state;
\* then model.predict(tensor), a TypeError when `model` is null by now.
Predict(c) ==
    /\ pc[c] = "yield"
    /\ IF model = 0
       THEN /\ pc' = [pc EXCEPT ![c] = "failed"]
            /\ outcome' = [outcome EXCEPT ![c] = Threw("TypeError")]
            /\ UNCHANGED <<predictions, usedModel>>
       ELSE /\ predictions' = [predictions EXCEPT
                                  ![c] = ForwardPass(model, image[c])]
            /\ usedModel' = [usedModel EXCEPT ![c] = model]
            /\ pc' = [pc EXCEPT ![c] = "array"]
            /\ UNCHANGED outcome
    /\ UNCHANGED <<model, classMapping, backendInitialized, image, network,
                   mappingLoads, modelLoads, loaded, rkVars, appVars>>

\* Lines 292-313: after `await predictions.array()`, the ranking with the
\* classMapping of this moment.
RankAndReturn(c) ==
    /\ pc[c] = "array"
    /\ outcome' = [outcome EXCEPT
                      ![c] = Rank(predictions[c], classMapping,
                                  PreprocessedUrl(image[c]))]
    /\ pc' = [pc EXCEPT ![c] = IF outcome'[c].ok THEN "done" ELSE "failed"]
    /\ UNCHANGED <<model, classMapping, backendInitialized, image, network,
                   usedModel, predictions, mappingLoads, modelLoads, loaded,
                   rkVars, appVars>>

Next ==
    \E c \in Calls :
        \/ \E img \in Images : CallPredictImage(c, img)
        \/ initializeBackend(c)
        \/ FetchMappingOk(c)
        \/ FetchMappingFails(c)
        \/ LoadLayersModelOk(c)
        \/ LoadLayersModelFails(c)
        \/ SettleLoad(c)
        \/ Predict(c)
        \/ RankAndReturn(c)

Spec == Init /\ [][Next]_vars

\* ----------------------------------------------------- pipeline: claims
\* The call has resolved or rejected.
Ended(c) == pc[c] \in {"done", "failed"}

\* C7: two runs of predictImage on the same image whose forward pass ran on
\* the same loaded model end with the same result, whatever other calls ran
\* before or in between.
C7_SameInputSameResult ==
    \A c \in Calls : \A d \in Calls :
        (/\ Ended(c)
         /\ Ended(d)
         /\ image[c] = image[d]
         /\ usedModel[c] # 0
         /\ usedModel[c] = usedModel[d])
        => outcome[c] = outcome[d]

\* C8: the class mapping and the model are each loaded at most once, under
\* every interleaving of calls.
C8_LoadedAtMostOnce ==
    /\ mappingLoads <= 1
    /\ modelLoads <= 1

\* C9: once a loadModel call has resolved, no step changes or clears model
\* or classMapping.
C9_LoadedNeverChanges ==
    [][loaded => (model' = model /\ classMapping' = classMapping)]_vars

LoadErrors == {"Class mapping not found", "Model loading failed",
               "Model loaded but is null"}
\* A loadModel call has rejected: initialization has failed once.
InitializationFailed ==
    \E c \in Calls : pc[c] = "failed" /\ outcome[c].error \in LoadErrors

\* C11: once a load has failed no prediction is served any more: no call
\* returns a result in a step taken after the failure.
C11_FailedInitializationIsFatal ==
    [][InitializationFailed =>
          \A c \in Calls : pc'[c] = "done" => pc[c] = "done"]_vars

ResultFields == {"className", "confidence", "top3", "allProbabilities",
                 "preprocessedImageUrl"}

LabelCount == Cardinality(DOMAIN ClassMappingFile)

\* C14: every predictImage call ends either with a complete result (all
\* fields, the distribution pairing every label of the label set with its
\* probability, top3 of min(3, n) pairs) or with an error, never with part
\* of a result, and before it ends it has neither; the API client's
\* predictImage resolves only with the service's complete result.
C14_FullResultOrError ==
    /\ \A c \in Calls :
          /\ pc[c] = "done" =>
                /\ outcome[c].ok
                /\ DOMAIN outcome[c].value = ResultFields
                /\ Len(outcome[c].value.allProbabilities) = LabelCount
                /\ \A i \in 1..Len(outcome[c].value.allProbabilities) :
                      outcome[c].value.allProbabilities[i].className
                          = Lookup(ClassMappingFile, i - 1)
                /\ \A i \in 1..Len(outcome[c].value.allProbabilities) :
                      outcome[c].value.allProbabilities[i].className # Undefined
                /\ Len(outcome[c].value.top3) = Min(3, LabelCount)
                /\ outcome[c].value.className
                      = outcome[c].value.top3[1].className
          /\ pc[c] = "failed" =>
                /\ ~outcome[c].ok
                /\ outcome[c].error \in LoadErrors \cup {"TypeError"}
          /\ pc[c] \notin {"done", "failed"} => outcome[c] = NoResult
    /\ (apiCall = "predict" /\ "ok" \in DOMAIN apiOut /\ apiOut.ok)
          => apiOut.value.body.type = "result"

\* C15: every preprocessing path resizes to the one input resolution,
\* 160x160, and the results page reports that resolution.
C15_OneResolution160 ==
    \A c \in Calls :
        pc[c] = "done" =>
            /\ outcome[c].value.preprocessedImageUrl[2] = InputSize
            /\ ApiCanvasSize = InputSize
            /\ ResultsPageSize = InputSize

\* ------------------------------------- the service and the upload page
\* Files a user can select: a photograph every decoder accepts, bytes no
\* decoder accepts, and a photograph that is changed on disk after it was
\* selected.
Files == {"leaf", "broken", "volatile"}
Decodable(f) == f \in {"leaf", "volatile"}

\* A file is read again each time an object URL of it is loaded; one changed
\* or removed on disk after it was selected and first decoded is not
\* readable the second time.
ReadableAgain(f) == f # "volatile"

\* What a POST /predict request can carry in its `image` field.
Payloads == {"absent", "empty", "corrupt", "text", "vector", "leaf"}
ServerDecodable(payload) == payload = "leaf"

\* The service binds its port whatever initialize() gave.
CanBindEarly(init) == TRUE

\* The service binds its port only after initialize() has succeeded.
CanBind(init) == init = "ok"

\* GET /health: 200 {"status": "ok", ...}.
HealthHandler(init) == [status |-> 200, body |-> "ok"]

\* Response.ok
ResponseOk(resp) == resp.status >= 200 /\ resp.status <= 299

\* POST /predict answers: a full result, a client error, a server error.
PredictStatuses == {200, 400, 500}

\* How a fetch ends: with a response, or rejected (TypeError "Failed to fetch").
Response(status, body) == [kind |-> "response", status |-> status, body |-> body]
FetchRejected == [kind |-> "reject", status |-> 0,
                  body |-> [type |-> "none", hasError |-> FALSE, error |-> <<>>]]

\* Response bodies: the prediction JSON, a JSON object with or without an
\* "error" member, the JSON text `null`, and a body that is not JSON.
ResultBody == [type |-> "result", hasError |-> FALSE, error |-> <<>>]
ErrorBody(msg) == [type |-> "object", hasError |-> TRUE, error |-> msg]
EmptyObjectBody == [type |-> "object", hasError |-> FALSE, error |-> <<>>]
NullBody == [type |-> "null", hasError |-> FALSE, error |-> <<>>]
HtmlBody == [type |-> "html", hasError |-> FALSE, error |-> <<>>]

\* POST /predict that lets a decode failure surface as a server error.
PredictHandlerUnguarded(payload) ==
    IF payload = "absent" THEN Response(400, ErrorBody(<<"No image provided">>))
    ELSE IF ~ServerDecodable(payload)
    THEN Response(500, ErrorBody(<<"cannot identify image file">>))
    ELSE Response(200, ResultBody)

\* POST /predict: a missing image field and undecodable bytes are client
\* errors; a decodable image is answered with the prediction.
PredictHandler(payload) ==
    IF payload = "absent" THEN Response(400, ErrorBody(<<"No image provided">>))
    ELSE IF ~ServerDecodable(payload)
    THEN Response(400, ErrorBody(<<"Invalid image">>))
    ELSE Response(200, ResultBody)

\* A model or pipeline failure while serving a decodable image.
PipelineFailure == Response(500, ErrorBody(<<"Prediction failed">>))

\* Every answer the service can give to a payload.
ServiceAnswers(payload) ==
    {PredictHandler(payload)}
        \cup (IF ServerDecodable(payload) THEN {PipelineFailure} ELSE {})

\* Answers produced between the browser and the service (hosting platform,
\* proxy) when the service itself does not answer.
GatewayAnswers ==
    { Response(502, HtmlBody) }

\* ------------------------------------------------------- the API client
\* String.prototype.includes on a message kept as a sequence of pieces.
Includes(msg, piece) == \E i \in 1..Len(msg) : msg[i] = piece

RequestBlocked ==
    <<"Request blocked by browser/ad blocker. Try disabling ad blockers for 127.0.0.1:5000">>

\* checkApiHealth that takes a failed fetch for an available service.
checkApiHealthOptimistic(o) ==
    IF o.kind = "response" THEN ResponseOk(o) ELSE TRUE

\* checkApiHealth (api.ts 18-37): response.ok, false when the fetch throws.
checkApiHealth(o) ==
    IF o.kind = "response" THEN ResponseOk(o) ELSE FALSE

\* The catch block of predictImage (api.ts 93-101) for an Error with this
\* message: the message is replaced when it includes 'Failed to fetch'.
ApiCatch(msg) ==
    IF Includes(msg, "Failed to fetch") THEN Threw(RequestBlocked)
    ELSE Threw(<<"API prediction failed: ">> \o msg)

\* Lines 77-80: `await response.json().catch(() => ({error: 'Unknown error'}))`
\* and `errorData.error || \`Server error: ${response.status}\``; reading
\* `.error` of `null` is a TypeError, which the catch block takes for a
\* blocked request.
ApiNotOk(o) ==
    IF o.body.type = "null" THEN Threw(RequestBlocked)
    ELSE LET error == IF o.body.type \in {"html", "none"} THEN <<"Unknown error">>
                      ELSE IF o.body.hasError THEN o.body.error
                      ELSE <<>>
         IN ApiCatch(IF error # <<>> THEN error
                     ELSE <<"Server error: ", JSString(o.status)>>)

\* Lines 82-92: `await response.json()` of an ok response and the returned
\* object; a body that is not JSON is a SyntaxError, `null.className` a
\* TypeError.
ApiOk(o) ==
    IF o.body.type \in {"html", "none"} THEN ApiCatch(<<"Unexpected token">>)
    ELSE IF o.body.type = "null" THEN Threw(RequestBlocked)
    ELSE Returned([body |-> o.body, preprocessedImageUrl |-> ApiCanvasSize])

\* predictImage of the API client from the fetch on (api.ts 68-102).
apiPredictImage(o) ==
    IF o.kind = "reject" THEN Threw(RequestBlocked)
    ELSE IF ~ResponseOk(o) THEN ApiNotOk(o)
    ELSE ApiOk(o)

\* ---------------------------------------------- upload page specification
\* The selections whose handleImageSelect has work outstanding.
InFlight == {s \in Sels : upPc[s] \in {"imageLoading", "health", "apiImage",
                                      "apiImageHung", "apiFetch", "navTimer"}}

AppInit ==
    /\ RkIdle
    /\ TfIdle
    /\ AppIdle

\* initialize(): the model and the label mapping are loaded.
ServerInitializeOk ==
    /\ srvInit = "pending"
    /\ srvInit' = "ok"
    /\ UNCHANGED <<srvBound, healthAnswer, predictLog, flowVars, pageVars,
                   apiVars, rkVars, tfVars>>

\* initialize(): an artifact is missing, unreadable or mismatched; fatal.
ServerInitializeFails ==
    /\ srvInit = "pending"
    /\ srvInit' = "failed"
    /\ UNCHANGED <<srvBound, healthAnswer, predictLog, flowVars, pageVars,
                   apiVars, rkVars, tfVars>>

\* "Server ready! Listening on http://localhost:5000"
ServerBind ==
    /\ ~srvBound
    /\ CanBind(srvInit)
    /\ srvBound' = TRUE
    /\ UNCHANGED <<srvInit, healthAnswer, predictLog, flowVars, pageVars,
                   apiVars, rkVars, tfVars>>

\* POST /predict from any client of the service.
PredictRequest(payload) ==
    /\ srvBound
    /\ Len(predictLog) < MaxRequests
    /\ \E answer \in ServiceAnswers(payload) :
          predictLog' = Append(predictLog, [payload |-> payload, answer |-> answer])
    /\ UNCHANGED <<srvInit, srvBound, healthAnswer, flowVars, pageVars,
                   apiVars, rkVars, tfVars>>

\* A state setter called by selection s: it reaches the Upload component
\* that accepted s, and nothing once that component has unmounted.
SetProgress(s, v) == progress' = IF detached[s] THEN progress ELSE v
SetIsProcessing(s, v) == isProcessing' = IF detached[s] THEN isProcessing ELSE v

\* The catch block that leaves the progress bar where it was.
ProcessingFailsKeepsProgress(s) ==
    /\ SetIsProcessing(s, FALSE)
    /\ progress' = progress
    /\ upPc' = [upPc EXCEPT ![s] = "failed"]

\* The catch block of img.onload's handler and img.onerror.
ProcessingFails(s) ==
    /\ SetIsProcessing(s, FALSE)
    /\ SetProgress(s, 0)
    /\ upPc' = [upPc EXCEPT ![s] = "failed"]

\* A guard that lets every file through.
CanSelectAlways(processing) == TRUE

\* `if (isProcessing) return` and UploadZone's `if (disabled) return`.
CanSelect(processing) == ~processing

\* handleImageSelect up to img.src = imageUrl (Upload.tsx 21-37), called
\* from UploadZone's drop or change handler; both guards read isProcessing
\* as of the last render, and the states set are rendered within the event.
handleImageSelect(f) ==
    /\ page = "/"
    /\ CanSelect(disabled)
    /\ selections < MaxSelections
    /\ selections' = selections + 1
    /\ selectedImage' = f
    /\ isProcessing' = TRUE
    /\ disabled' = TRUE
    /\ progress' = 10
    /\ upPc' = [upPc EXCEPT ![selections + 1] = "imageLoading"]
    /\ upFile' = [upFile EXCEPT ![selections + 1] = f]
    /\ UNCHANGED <<detached, imageLoaded, healthOutcome, apiAvailable, posts,
                   predictOutcome, apiError, page, storage, resultsShown, shownFor,
                   ignored, lastNav, routeVars, srvVars, apiVars, rkVars, tfVars>>

\* A file is chosen or dropped while the rendered upload page is disabled:
\* UploadZone and handleImageSelect return at once.
SelectWhileProcessing(f) ==
    /\ page = "/"
    /\ ~CanSelect(disabled)
    /\ ignored = 0
    /\ ignored' = 1
    /\ UNCHANGED <<page, selectedImage, isProcessing, progress, storage,
                   resultsShown, shownFor, selections, lastNav, routeVars, disabled, flowVars, srvVars,
                   apiVars, rkVars, tfVars>>

\* img.onload up to `await checkApiHealth()` (Upload.tsx 39-47).
ImageOnLoad(s) ==
    /\ upPc[s] = "imageLoading"
    /\ Decodable(upFile[s])
    /\ imageLoaded' = [imageLoaded EXCEPT ![s] = TRUE]
    /\ SetProgress(s, 30)
    /\ upPc' = [upPc EXCEPT ![s] = "health"]
    /\ UNCHANGED <<upFile, detached, healthOutcome, apiAvailable, posts, predictOutcome,
                   apiError, page, selectedImage, isProcessing, storage,
                   resultsShown, shownFor, selections, ignored, lastNav, routeVars, disabled, srvVars, apiVars,
                   rkVars, tfVars>>

\* img.onerror (Upload.tsx 120-125).
ImageOnError(s) ==
    /\ upPc[s] = "imageLoading"
    /\ ~Decodable(upFile[s])
    /\ ProcessingFails(s)
    /\ UNCHANGED <<upFile, detached, imageLoaded, healthOutcome, apiAvailable, posts,
                   predictOutcome, apiError, page, selectedImage, storage,
                   resultsShown, shownFor, selections, ignored, lastNav, routeVars, disabled, srvVars, apiVars,
                   rkVars, tfVars>>

\* The service's answer to GET /health as the fetch sees it.
ServiceHealth == Response(HealthHandler(srvInit).status, EmptyObjectBody)

\* The ways the GET /health fetch can end.
HealthFetches ==
    {FetchRejected} \cup GatewayAnswers
        \cup (IF srvBound THEN {ServiceHealth} ELSE {})

\* `const apiAvailable = await checkApiHealth()` for a fetch that ended in o.
HealthSettles(s, o) ==
    /\ healthOutcome' = [healthOutcome EXCEPT ![s] = o]
    /\ apiAvailable' = [apiAvailable EXCEPT ![s] =
                           IF checkApiHealth(o) THEN "true" ELSE "false"]
    /\ healthAnswer' = IF srvBound /\ o = ServiceHealth
                       THEN <<HealthHandler(srvInit)>> ELSE healthAnswer

\* checkApiHealth() resolves true; on to predictImage's own image load
\* (Upload.tsx 47-75).
HealthAvailable(s) ==
    /\ upPc[s] = "health"
    /\ \E o \in HealthFetches : checkApiHealth(o) /\ HealthSettles(s, o)
    /\ SetProgress(s, 40)
    /\ upPc' = [upPc EXCEPT ![s] = "apiImage"]
    /\ UNCHANGED <<upFile, detached, imageLoaded, posts, predictOutcome, apiError, page,
                   selectedImage, isProcessing, storage, resultsShown, shownFor,
                   selections, ignored, lastNav, routeVars, disabled, srvInit, srvBound, predictLog,
                   apiVars, rkVars, tfVars>>

\* checkApiHealth() resolves false and the flow goes on all the same.
HealthUnavailableProceeds(s) ==
    /\ upPc[s] = "health"
    /\ \E o \in HealthFetches : ~checkApiHealth(o) /\ HealthSettles(s, o)
    /\ SetProgress(s, 40)
    /\ upPc' = [upPc EXCEPT ![s] = "apiImage"]
    /\ UNCHANGED <<upFile, detached, imageLoaded, posts, predictOutcome, apiError, page,
                   selectedImage, isProcessing, storage, resultsShown, shownFor,
                   selections, ignored, lastNav, routeVars, disabled, srvInit, srvBound, predictLog,
                   apiVars, rkVars, tfVars>>

\* checkApiHealth() resolves false: Upload throws into its catch block
\* (Upload.tsx 47-55, 112-117).
HealthUnavailable(s) ==
    /\ upPc[s] = "health"
    /\ \E o \in HealthFetches : ~checkApiHealth(o) /\ HealthSettles(s, o)
    /\ ProcessingFails(s)
    /\ UNCHANGED <<upFile, detached, imageLoaded, posts, predictOutcome, apiError, page,
                   selectedImage, storage, resultsShown, shownFor, selections, ignored, lastNav, routeVars, disabled,
                   srvInit, srvBound, predictLog, apiVars, rkVars, tfVars>>

\* The 200 ms interval started before the API call (Upload.tsx 64-69).
ProgressTick(s) ==
    /\ upPc[s] \in {"apiImage", "apiImageHung", "apiFetch"}
    /\ ~detached[s]
    /\ progress < 80
    /\ progress' = progress + 2
    /\ UNCHANGED <<page, selectedImage, isProcessing, storage, resultsShown, shownFor,
                   selections, ignored, lastNav, routeVars, disabled, flowVars, srvVars, apiVars, rkVars,
                   tfVars>>

\* api predictImage: the image has loaded, the POST is sent (api 51-75).
ApiImageLoaded(s) ==
    /\ upPc[s] = "apiImage"
    /\ Decodable(upFile[s])
    /\ ReadableAgain(upFile[s])
    /\ posts' = [posts EXCEPT ![s] = @ + 1]
    /\ upPc' = [upPc EXCEPT ![s] = "apiFetch"]
    /\ UNCHANGED <<upFile, detached, imageLoaded, healthOutcome, apiAvailable,
                   predictOutcome, apiError, pageVars, srvVars, apiVars,
                   rkVars, tfVars>>

\* api predictImage: the image fires its error event; only onload is handled
\* (api 50-56), so the awaited promise never settles.
ApiImageError(s) ==
    /\ upPc[s] = "apiImage"
    /\ ~(Decodable(upFile[s]) /\ ReadableAgain(upFile[s]))
    /\ upPc' = [upPc EXCEPT ![s] = "apiImageHung"]
    /\ UNCHANGED <<upFile, detached, imageLoaded, healthOutcome, apiAvailable, posts,
                   predictOutcome, apiError, pageVars, srvVars, apiVars,
                   rkVars, tfVars>>

\* The ways the POST /predict fetch for file f can end.
PredictFetches(f) ==
    {FetchRejected} \cup GatewayAnswers
        \cup (IF srvBound THEN ServiceAnswers(f) ELSE {})

\* predictImage resolves: the result is stored and the navigation timer is
\* started (api 82-92, Upload.tsx 76-111).
PredictSucceeds(s) ==
    /\ upPc[s] = "apiFetch"
    /\ \E o \in PredictFetches(upFile[s]) :
          /\ apiPredictImage(o).ok
          /\ predictOutcome' = [predictOutcome EXCEPT ![s] = o]
    /\ storage' = [k \in StorageKeys |-> s]
    /\ SetProgress(s, 100)
    /\ upPc' = [upPc EXCEPT ![s] = "navTimer"]
    /\ UNCHANGED <<upFile, detached, imageLoaded, healthOutcome, apiAvailable, posts,
                   apiError, page, selectedImage, isProcessing, resultsShown, shownFor,
                   selections, ignored, lastNav, routeVars, disabled, srvVars, apiVars, rkVars, tfVars>>

\* predictImage rejects and the request is sent once more.
PredictFailsRetries(s) ==
    /\ upPc[s] = "apiFetch"
    /\ posts[s] < 2
    /\ \E o \in PredictFetches(upFile[s]) :
          /\ ~apiPredictImage(o).ok
          /\ predictOutcome' = [predictOutcome EXCEPT ![s] = o]
          /\ apiError' = [apiError EXCEPT ![s] = apiPredictImage(o).error]
    /\ posts' = [posts EXCEPT ![s] = @ + 1]
    /\ UNCHANGED <<upPc, upFile, detached, imageLoaded, healthOutcome, apiAvailable,
                   pageVars, srvVars, apiVars, rkVars, tfVars>>

\* predictImage rejects and Upload's catch block runs (api 77-80, 93-101,
\* Upload.tsx 79-82, 112-117).
PredictFails(s) ==
    /\ upPc[s] = "apiFetch"
    /\ \E o \in PredictFetches(upFile[s]) :
          /\ ~apiPredictImage(o).ok
          /\ predictOutcome' = [predictOutcome EXCEPT ![s] = o]
          /\ apiError' = [apiError EXCEPT ![s] = apiPredictImage(o).error]
    /\ ProcessingFails(s)
    /\ UNCHANGED <<upFile, detached, imageLoaded, healthOutcome, apiAvailable, posts,
                   page, selectedImage, storage, resultsShown, shownFor, selections,
                   ignored, lastNav, routeVars, disabled, srvVars, apiVars, rkVars, tfVars>>

\* Results as it mounts: its three states are null and it renders null
\* (Results.tsx 9-11, 64-66).
ResultsMounts ==
    /\ page' = "/results"
    /\ resultsShown' = FALSE
    /\ shownFor' = 0

\* React renders the upload page after a callback of a selection has set
\* isProcessing: the closure of handleImageSelect and UploadZone's
\* `disabled` take the value set (Upload.tsx 23, 231).
UploadRerenders ==
    /\ page = "/"
    /\ disabled # isProcessing
    /\ disabled' = isProcessing
    /\ UNCHANGED <<page, selectedImage, isProcessing, progress, storage,
                   resultsShown, shownFor, selections, ignored, lastNav,
                   routeVars, flowVars, srvVars, apiVars, rkVars, tfVars>>

\* The effect of the results page (Results.tsx 13-33): with both entries the
\* stored prediction becomes its state, the location staying loc and its
\* setter nav; with either missing navigate("/") and the state stays null.
useEffect(loc, nav) ==
    IF storage["imageUrl"] # 0 /\ storage["prediction"] # 0
    THEN /\ prediction' = storage["prediction"]
         /\ location' = loc
         /\ lastNav' = nav
    ELSE /\ prediction' = 0
         /\ location' = "/"
         /\ lastNav' = "redirect"

\* The route leaves "/": the Upload component unmounts and its state is
\* gone (a later mount starts from the initial values); the callbacks of the
\* selections it had accepted stay scheduled.
UploadUnmounts ==
    /\ detached' = [s \in Sels |-> detached[s] \/ upPc[s] # "none"]
    /\ isProcessing' = FALSE
    /\ disabled' = FALSE
    /\ progress' = 0
    /\ selectedImage' = "none"

\* The 500 ms timer fires: navigate("/results") (Upload.tsx 108-111). Only
\* the router's location changes; what is mounted changes when React
\* renders.
NavigateToResults(s) ==
    /\ upPc[s] = "navTimer"
    /\ upPc' = [upPc EXCEPT ![s] = "navigated"]
    /\ location' = "/results"
    /\ lastNav' = "upload"
    /\ UNCHANGED <<upFile, detached, imageLoaded, healthOutcome, apiAvailable,
                   posts, predictOutcome, apiError, page, selectedImage,
                   isProcessing, disabled, progress, storage, resultsShown, shownFor,
                   selections, ignored, resultsPc, prediction, srvVars,
                   apiVars, rkVars, tfVars>>

\* React renders the location /results over the upload page: Upload
\* unmounts, Results mounts and renders null; its effect is due.
RenderResults ==
    /\ page = "/"
    /\ location = "/results"
    /\ ResultsMounts
    /\ UploadUnmounts
    /\ resultsPc' = "mounted"
    /\ prediction' = 0
    /\ UNCHANGED <<upPc, upFile, imageLoaded, healthOutcome, apiAvailable,
                   posts, predictOutcome, apiError, storage, selections,
                   ignored, lastNav, location, srvVars, apiVars, rkVars,
                   tfVars>>

\* The effect of a results page mounted by a render runs, after the commit
\* and before anything else is rendered.
ResultsEffect ==
    /\ resultsPc = "mounted"
    /\ useEffect(location, lastNav)
    /\ resultsPc' = "ran"
    /\ UNCHANGED <<page, selectedImage, isProcessing, disabled, progress, storage,
                   resultsShown, shownFor, selections, ignored, flowVars,
                   srvVars, apiVars, rkVars, tfVars>>

\* React renders the results page with the state its effect has set
\* (Results.tsx 64-71).
RenderPrediction ==
    /\ page = "/results"
    /\ location = "/results"
    /\ resultsPc = "ran"
    /\ prediction # 0
    /\ ~resultsShown
    /\ resultsShown' = TRUE
    /\ shownFor' = prediction
    /\ UNCHANGED <<page, selectedImage, isProcessing, disabled, progress, storage,
                   selections, ignored, lastNav, routeVars, flowVars,
                   srvVars, apiVars, rkVars, tfVars>>

\* React renders the location "/" over the results page: Results unmounts
\* and the upload page mounts afresh.
RenderUpload ==
    /\ page = "/results"
    /\ location = "/"
    /\ resultsPc = "ran"
    /\ page' = "/"
    /\ resultsShown' = FALSE
    /\ shownFor' = 0
    /\ resultsPc' = "unmounted"
    /\ prediction' = 0
    /\ UNCHANGED <<selectedImage, isProcessing, disabled, progress, storage, selections,
                   ignored, lastNav, location, flowVars, srvVars, apiVars,
                   rkVars, tfVars>>

\* The location becomes /results by history navigation while the upload
\* page is mounted, whatever the upload page is doing: within the popstate
\* event Upload unmounts, Results mounts and its effect runs.
OpenResults ==
    /\ page = "/"
    /\ ResultsMounts
    /\ UploadUnmounts
    /\ useEffect("/results", "open")
    /\ resultsPc' = "ran"
    /\ UNCHANGED <<upPc, upFile, imageLoaded, healthOutcome, apiAvailable,
                   posts, predictOutcome, apiError, storage, selections,
                   ignored, srvVars, apiVars, rkVars, tfVars>>

\* handleNewUpload that leaves the stored prediction behind.
handleNewUploadKeepsPrediction ==
    /\ page = "/results"
    /\ resultsShown
    /\ storage' = [storage EXCEPT !["imageUrl"] = 0,
                                  !["preprocessedImageUrl"] = 0]
    /\ location' = "/"
    /\ page' = "/"
    /\ resultsShown' = FALSE
    /\ shownFor' = 0
    /\ resultsPc' = "unmounted"
    /\ prediction' = 0
    /\ lastNav' = "newUpload"
    /\ UNCHANGED <<selectedImage, isProcessing, disabled, progress, selections,
                   ignored, flowVars, srvVars, apiVars, rkVars, tfVars>>

\* handleNewUpload (Results.tsx 35-40), a click on the rendered results
\* page; the upload page mounts afresh.
handleNewUpload ==
    /\ page = "/results"
    /\ resultsShown
    /\ storage' = [k \in StorageKeys |-> 0]
    /\ location' = "/"
    /\ page' = "/"
    /\ resultsShown' = FALSE
    /\ shownFor' = 0
    /\ resultsPc' = "unmounted"
    /\ prediction' = 0
    /\ lastNav' = "newUpload"
    /\ UNCHANGED <<selectedImage, isProcessing, disabled, progress, selections,
                   ignored, flowVars, srvVars, apiVars, rkVars, tfVars>>

\* The Back button of the results page (Results.tsx 78): navigate("/") with
\* the stored entries kept.
handleBack ==
    /\ page = "/results"
    /\ resultsShown
    /\ location' = "/"
    /\ page' = "/"
    /\ resultsShown' = FALSE
    /\ shownFor' = 0
    /\ resultsPc' = "unmounted"
    /\ prediction' = 0
    /\ lastNav' = "back"
    /\ UNCHANGED <<selectedImage, isProcessing, disabled, progress, storage,
                   selections, ignored, flowVars, srvVars, apiVars, rkVars, tfVars>>

AppNext ==
    \/ ServerInitializeOk
    \/ ServerInitializeFails
    \/ ServerBind
    \/ \E f \in Files : handleImageSelect(f)
    \/ \E f \in Files : SelectWhileProcessing(f)
    \/ \E s \in Sels : ImageOnLoad(s)
    \/ \E s \in Sels : ImageOnError(s)
    \/ \E s \in Sels : HealthAvailable(s)
    \/ \E s \in Sels : HealthUnavailable(s)
    \/ \E s \in Sels : ProgressTick(s)
    \/ \E s \in Sels : ApiImageLoaded(s)
    \/ \E s \in Sels : ApiImageError(s)
    \/ \E s \in Sels : PredictSucceeds(s)
    \/ \E s \in Sels : PredictFails(s)
    \/ UploadRerenders
    \/ \E s \in Sels : NavigateToResults(s)
    \/ RenderResults
    \/ ResultsEffect
    \/ RenderPrediction
    \/ RenderUpload
    \/ OpenResults
    \/ handleNewUpload
    \/ handleBack

AppSpec == AppInit /\ [][AppNext]_vars

\* The callbacks of a selection: image events, settled fetches, the timer.
FlowStep(s) ==
    \/ ImageOnLoad(s)
    \/ ImageOnError(s)
    \/ HealthAvailable(s)
    \/ HealthUnavailable(s)
    \/ ApiImageLoaded(s)
    \/ ApiImageError(s)
    \/ PredictSucceeds(s)
    \/ PredictFails(s)
    \/ NavigateToResults(s)

\* The browser runs every callback that is due, and every fetch settles.
AppFairSpec == AppSpec /\ \A s \in Sels : WF_vars(FlowStep(s))

\* ------------------------------------------------- service specification
\* The service on its own, answering the prediction requests of any client.
ServiceNext ==
    \/ ServerInitializeOk
    \/ ServerInitializeFails
    \/ ServerBind
    \/ \E payload \in Payloads : PredictRequest(payload)

ServiceSpec == AppInit /\ [][ServiceNext]_vars

\* ------------------------------------------------------ service: claims
\* C10: the port is bound only after initialize() has succeeded, and every
\* answer to GET /health, all given after that, is 200 with status "ok".
C10_BindAfterInitHealthOk ==
    /\ srvBound => srvInit = "ok"
    /\ healthAnswer # <<>> =>
          /\ srvInit = "ok"
          /\ healthAnswer[1].status = 200
          /\ healthAnswer[1].body = "ok"

\* C10 witness: the service initialized, bound, and answered a health check
\* of the upload page, which went on to the prediction request.
C10_Witness ==
    /\ srvInit = "ok"
    /\ srvBound
    /\ healthAnswer # <<>>
    /\ \E s \in Sels : upPc[s] = "apiFetch"

\* ---------------------------------------------- API client specification
ApiStatuses == {200, 201, 400, 404, 500, 502, 503}
ErrorTexts == { <<>>, <<"No image provided">>, <<"Invalid image">>,
                <<"Failed to fetch", " model weights">> }
ApiBodies == {ResultBody, EmptyObjectBody, NullBody, HtmlBody}
                 \cup {ErrorBody(m) : m \in ErrorTexts}
FetchOutcomes == {FetchRejected} \cup {Response(st, b) : st \in ApiStatuses, b \in ApiBodies}

ApiInit ==
    /\ RkIdle
    /\ TfIdle
    /\ UploadIdle
    /\ apiCall \in {"health", "predict"}
    /\ apiIn \in FetchOutcomes
    /\ apiOut = Unsettled

\* `await checkApiHealth()` settles.
ApiHealthSettles ==
    /\ apiCall = "health"
    /\ apiOut = Unsettled
    /\ apiOut' = Returned(checkApiHealth(apiIn))
    /\ UNCHANGED <<apiCall, apiIn, srvVars, flowVars, pageVars, rkVars, tfVars>>

\* `await predictImage(file)` settles.
ApiPredictSettles ==
    /\ apiCall = "predict"
    /\ apiOut = Unsettled
    /\ apiOut' = apiPredictImage(apiIn)
    /\ UNCHANGED <<apiCall, apiIn, srvVars, flowVars, pageVars, rkVars, tfVars>>

ApiNext ==
    \/ ApiHealthSettles
    \/ ApiPredictSettles

ApiSpec == ApiInit /\ [][ApiNext]_vars

\* ---------------------------------------------------- API client: claims
ApiSettled(call) == apiCall = call /\ "ok" \in DOMAIN apiOut
OkStatus(o) == o.kind = "response" /\ o.status \in 200..299

\* C18: checkApiHealth never rejects; it resolves to true exactly when the
\* GET /health response has an ok status, and to false for every other
\* status and for every failure of the fetch.
C18_HealthNeverRejects ==
    ApiSettled("health") =>
        /\ apiOut.ok
        /\ apiOut.value = OkStatus(apiIn)

\* C18 witness: health checks have resolved to false after a failed fetch.
C18_Witness ==
    /\ ApiSettled("health")
    /\ apiIn = FetchRejected
    /\ apiOut = Returned(FALSE)

\* The message ends with this text.
Carries(msg, text) ==
    /\ Len(msg) >= Len(text)
    /\ SubSeq(msg, Len(msg) - Len(text) + 1, Len(msg)) = text

\* C16: for every response to the predict request whose status is not 2xx,
\* predictImage rejects; the message carries the "error" member of the JSON
\* body when it has a non-empty one, "Unknown error" when the body is not
\* JSON, and "Server error: <status>" otherwise.
C16_NonOkRejectsWithServerError ==
    (ApiSettled("predict") /\ apiIn.kind = "response" /\ ~OkStatus(apiIn)) =>
        /\ ~apiOut.ok
        /\ IF apiIn.body.hasError /\ apiIn.body.error # <<>>
           THEN Carries(apiOut.error, apiIn.body.error)
           ELSE IF apiIn.body.type = "html"
           THEN Carries(apiOut.error, <<"Unknown error">>)
           ELSE IF apiIn.body.type = "null"
           THEN \/ Carries(apiOut.error, <<"Unknown error">>)
                \/ Carries(apiOut.error, <<"Server error: ", JSString(apiIn.status)>>)
           ELSE Carries(apiOut.error, <<"Server error: ", JSString(apiIn.status)>>)

\* ------------------------------------------- prediction endpoint: claims
BadPayloads == {"absent", "empty", "corrupt", "text", "vector"}

\* C12: a POST /predict whose image is absent, zero-byte, corrupted or not
\* an image is answered with a 4xx status, never a 5xx, and the service is
\* still bound to its port afterwards, answering the requests that follow.
C12_BadPayloadIsClientError ==
    \A i \in 1..Len(predictLog) :
        /\ srvBound
        /\ predictLog[i].answer.kind = "response"
        /\ predictLog[i].payload \in BadPayloads =>
              predictLog[i].answer.status \in 400..499

\* C12 witness: a corrupted payload was answered 400 and the next request,
\* a leaf photograph, was answered 200.
C12_Witness ==
    /\ Len(predictLog) >= 2
    /\ predictLog[1].payload = "corrupt"
    /\ predictLog[1].answer.status = 400
    /\ predictLog[2].payload = "leaf"
    /\ predictLog[2].answer.status = 200

\* ---------------------------------------------------- upload page: claims
Failed(s) == upPc[s] = "failed"

\* C13: no selection has more than one predict request sent for it, and a
\* selection whose predict request was rejected has failed at once, with
\* that single request.
C13_NoRetries ==
    \A s \in Sels :
        /\ posts[s] <= 1
        /\ apiError[s] # <<>> => Failed(s) /\ posts[s] = 1

\* C13 witness: a predict request was answered with a server error and the
\* selection failed after that one request.
C13_Witness ==
    \E s \in Sels :
        /\ Failed(s)
        /\ predictOutcome[s].kind = "response"
        /\ predictOutcome[s].status = 500
        /\ posts[s] = 1

\* The selections in flight on the upload page that accepted them.
Processing == {s \in InFlight : ~detached[s]}

\* C17: from the moment a selection is accepted until it fails or its
\* upload page is left for the results, isProcessing is set and rendered, it
\* is the only selection that page is processing and no later one has been
\* accepted; only accepted selections have a flow; and a file chosen or
\* dropped meanwhile changes nothing: no selection is accepted, no image
\* load, health check or predict request starts.
C17_OneAtATime ==
    /\ [](/\ Cardinality(Processing) <= 1
          /\ \A s \in Processing :
                /\ isProcessing
                /\ disabled
                /\ s = selections
          /\ \A s \in Sels : s > selections =>
                /\ upPc[s] = "none"
                /\ healthOutcome[s] = NoOutcome
                /\ posts[s] = 0)
    /\ [][ignored' # ignored =>
             /\ disabled
             /\ selections' = selections
             /\ upPc' = upPc
             /\ healthOutcome' = healthOutcome
             /\ posts' = posts
             /\ storage' = storage]_vars

\* C17 witness: a file was chosen while the first selection was waiting for
\* its predict request, and that selection is still the only one.
C17_Witness ==
    /\ ignored = 1
    /\ selections = 1
    /\ upPc[1] = "apiFetch"
    /\ ~detached[1]
    /\ posts[1] = 1
    /\ isProcessing

\* C19: a predict request is sent only for a selection whose image loaded
\* and whose health check then returned true; a selection whose health
\* check returned false, or whose image did not load, has none.
C19_LoadHealthPredict ==
    \A s \in Sels :
        /\ apiAvailable[s] # "none" => imageLoaded[s]
        /\ (posts[s] > 0 \/ upPc[s] \in {"apiImage", "apiFetch", "navTimer", "navigated"})
              => imageLoaded[s] /\ apiAvailable[s] = "true"
        /\ apiAvailable[s] = "false" => posts[s] = 0 /\ Failed(s)
        /\ ~imageLoaded[s] => posts[s] = 0 /\ healthOutcome[s] = NoOutcome

\* C19 witness: one selection's health check returned false and it sent no
\* request; another's returned true and its request is sent.
C19_Witness ==
    \E s, t \in Sels :
        /\ apiAvailable[s] = "false" /\ posts[s] = 0
        /\ apiAvailable[t] = "true" /\ posts[t] = 1

\* C20: a selection that failed wrote nothing to sessionStorage and no
\* results page holds a prediction of it; while it is the latest selection
\* and the upload page is shown, isProcessing is false and progress is 0.
C20_FailureClearsProcessing ==
    \A s \in Sels : Failed(s) =>
        /\ \A k \in StorageKeys : storage[k] # s
        /\ shownFor # s
        /\ s = selections =>
              /\ ~isProcessing
              /\ progress = 0

\* C20 witness: one selection failed at its image load, and the latest one
\* failed after its predict request was sent.
C20_Witness ==
    /\ \E s \in Sels : Failed(s) /\ ~imageLoaded[s]
    /\ \E s \in Sels : Failed(s) /\ posts[s] = 1 /\ s = selections

\* --------------------------------------- pipeline: model and label mapping
\* C24: in every reachable state a non-null model comes with a non-null
\* classMapping, a call about to run the forward pass finds model non-null,
\* and a call about to look the labels up finds classMapping non-null.
C24_ModelAndMappingNonNull ==
    /\ model # 0 => classMapping # <<>>
    /\ \A c \in Calls :
          /\ pc[c] = "yield" => model # 0
          /\ pc[c] = "array" => classMapping # <<>>

\* ---------------------------------------------------- results page: claims
\* C21: whenever the timer of a selection navigates to /results, the
\* "prediction" and "imageUrl" entries written by that selection are in
\* sessionStorage; and the effect of a results page mounted by such a
\* navigation finds both entries and does not redirect home.
C21_NavigateAfterStored ==
    /\ [][\A s \in Sels :
             (upPc[s] = "navTimer" /\ upPc'[s] = "navigated") =>
                 /\ storage["prediction"] = s
                 /\ storage["imageUrl"] = s]_vars
    /\ [][(resultsPc = "mounted" /\ resultsPc' = "ran") =>
             /\ prediction' # 0
             /\ lastNav' # "redirect"]_vars

\* C22: the results page renders a prediction only with both "imageUrl" and
\* "prediction" stored and held in its state; its effect, finding either
\* missing, calls navigate("/") and sets no state, and a results page whose
\* effect found either missing renders nothing; handleNewUpload leaves none
\* of the three entries, so that an opening of /results that follows it
\* redirects.
C22_ResultsNeedBothEntries ==
    /\ [](/\ resultsShown => /\ storage["imageUrl"] # 0
                             /\ storage["prediction"] # 0
                             /\ prediction # 0
                             /\ page = "/results"
          /\ (page = "/results" /\ prediction = 0) => ~resultsShown)
    /\ [][(/\ resultsPc # "ran"
           /\ resultsPc' = "ran"
           /\ (storage["imageUrl"] = 0 \/ storage["prediction"] = 0))
             => /\ location' = "/"
                /\ lastNav' = "redirect"
                /\ prediction' = 0
                /\ ~resultsShown']_vars
    /\ [][(lastNav # "newUpload" /\ lastNav' = "newUpload")
             => \A k \in StorageKeys : storage'[k] = 0]_vars

\* C22 witness: a prediction was shown, handleNewUpload removed the entries,
\* /results was opened again, its effect redirected and the upload page is
\* rendered.
C22_Witness ==
    /\ \E s \in Sels : upPc[s] = "navigated"
    /\ \A k \in StorageKeys : storage[k] = 0
    /\ lastNav = "redirect"
    /\ location = "/"
    /\ page = "/"

\* ------------------------------------------------- upload page: liveness
\* C23: every accepted selection eventually ends, by navigating to /results
\* or by failing with isProcessing cleared, given that every fetch settles.
C23_SelectionEventuallyEnds ==
    \A s \in Sels : (upPc[s] # "none") ~> (upPc[s] \in {"navigated", "failed"})

====
